---- MODULE Spec2Model ----
(***************************************************************************)
(* Verification model of the Latitude Deno SDK core:                       *)
(*   - IncrementalJSONParser (examples/streaming_json_parse.ts)            *)
(*   - handleStream, streamAttach, syncChat, syncAttach (src/utils)        *)
(* Text is modelled as a sequence of one-character strings.                *)
(***************************************************************************)
EXTENDS Integers, Sequences, FiniteSets, TLC

VARIABLES
    \* ---- IncrementalJSONParser fields
    buffer, depth, inString, escapeNext, arrayMode, objectStart,
    \* ---- the parser's environment: the document, what is still to be fed,
    \*      the results of the last feed and of all feeds so far
    doc, rest, lastResults, emitted, feeds,
    resets,         \* reset() calls made
    resetDirty,     \* whether the last reset() found fields off their initial values
    emptyFeeds,     \* feed('') calls made
    fresh,          \* a newly constructed parser fed the chunks fed since the
                    \* last reset(), and the values it returned
    \* ---- one call of streamAttach, syncChat or syncAttach
    op,             \* which operation is called
    hasOnEvent, hasOnError, hasOnFinished,  \* the callbacks supplied
    pc,             \* where the call stands
    requests,       \* makeRequest calls made
    attempts,       \* the status answered to each HTTP request made, in order
    flaky,          \* whether the server may answer 5xx and then otherwise
    response,       \* what makeRequest answered
    frames,         \* what reader.read() has returned so far, in order
    readEnd,        \* how reading ended: by done, or by a failed read
    uuid, conversation, chainResponse,      \* the locals of handleStream
    onEventLog, onErrorLog, onFinishedLog,  \* what each callback was given
    toolCalls,      \* onToolCall invocations made
    toolsInFlight,  \* onToolCall promises not yet settled
    hsResult,       \* how handleStream's try/catch ended
    releaseCalls,   \* reader.releaseLock() calls made
    warnings,       \* console.warn calls made
    outcome,        \* the promise the operation returned
    \* ---- one call of parseSSE
    sseData,        \* the text given to parseSSE
    ssePc,          \* where the call stands
    sseLines,       \* the lines the for loop has still to visit
    sseEvent,       \* the record built so far: its entries, in key order
    sseResult,      \* what parseSSE returned
    \* ---- one call of Latitude.renderStep
    toolRequests,   \* completion.toolRequests: the tool names requested
    toolRuns,       \* the promises Promise.all waits for, in order
    stepPc,         \* where the call stands
    stepResult      \* how renderStep ended

parserVars == <<buffer, depth, inString, escapeNext, arrayMode, objectStart>>
sessionVars == <<buffer, depth, inString, escapeNext, arrayMode, objectStart,
                 doc, rest, lastResults, emitted, feeds, resets, resetDirty,
                 emptyFeeds, fresh>>
callVars == <<op, hasOnEvent, hasOnError, hasOnFinished, pc, requests, attempts,
              flaky, response,
              frames, readEnd,
              uuid, conversation, chainResponse, onEventLog, onErrorLog,
              onFinishedLog, toolCalls, toolsInFlight, hsResult, releaseCalls,
              warnings, outcome>>
sseVars == <<sseData, ssePc, sseLines, sseEvent, sseResult>>
renderVars == <<toolRequests, toolRuns, stepPc, stepResult>>
vars == <<sessionVars, callVars, sseVars, renderVars>>

\* ------------------------------------------------------------------ bounds
\* the most values one stream delivers before it ends
MaxFrames == 3
\* the most reset() calls made on one parser
MaxResets == 2
\* the most lines of one block given to parseSSE
MaxLines == 3
\* the most tool requests of one completion
MaxToolRequests == 2

\* ------------------------------------------------------------ text helpers
Min(a, b) == IF a < b THEN a ELSE b
Max(a, b) == IF a > b THEN a ELSE b

\* the characters JavaScript's \s and trimStart treat as white space
\* (those of them that the documents can hold)
WhiteSpace == {" ", "\t", "\n", "\r"}

\* String.prototype.substring(a, b): both indices clamped to 0..length and
\* swapped when a > b; indices are 0-based, b exclusive
Substring(s, a, b) ==
    LET ca == Max(0, Min(a, Len(s)))
        cb == Max(0, Min(b, Len(s)))
        lo == Min(ca, cb)
        hi == Max(ca, cb)
    IN  SubSeq(s, lo + 1, hi)

\* the number of leading characters of s that lie in the set cs
RECURSIVE LeadingRun(_, _)
LeadingRun(s, cs) ==
    IF s = <<>> \/ Head(s) \notin cs THEN 0 ELSE 1 + LeadingRun(Tail(s), cs)

\* String.prototype.trimStart()
TrimStart(s) == SubSeq(s, LeadingRun(s, WhiteSpace) + 1, Len(s))

\* s.replace(/^[\s,]+/, '')
StripSeparators(s) == SubSeq(s, LeadingRun(s, WhiteSpace \cup {","}) + 1, Len(s))

\* ------------------------------------------------------------- JSON.parse
\* A recogniser for the JSON grammar (ECMA-404) over the model's characters.
\* Every Parse* operator takes a 1-based position and returns the position
\* after the construct, or 0 when the text at the position is not one.
Digits == {"0", "1", "2", "3", "4", "5", "6", "7", "8", "9"}
HexDigits == Digits \cup {"a", "b", "c", "d", "e", "f", "A", "B", "C", "D", "E", "F"}
SimpleEscapes == {"\"", "\\", "/", "b", "f", "n", "r", "t"}
ControlChars == {"\t", "\n", "\r"}

SkipWs(s, i) == i + LeadingRun(SubSeq(s, i, Len(s)), WhiteSpace)

MatchWord(s, i, w) ==
    IF i + Len(w) - 1 <= Len(s) /\ SubSeq(s, i, i + Len(w) - 1) = w
    THEN i + Len(w) ELSE 0

\* i is the position after the opening quote
RECURSIVE ParseStringBody(_, _)
ParseStringBody(s, i) ==
    IF i > Len(s) THEN 0
    ELSE IF s[i] = "\"" THEN i + 1
    ELSE IF s[i] \in ControlChars THEN 0
    ELSE IF s[i] = "\\" THEN
        IF i + 1 > Len(s) THEN 0
        ELSE IF s[i + 1] \in SimpleEscapes THEN ParseStringBody(s, i + 2)
        ELSE IF s[i + 1] = "u" /\ i + 5 <= Len(s)
                /\ \A k \in (i + 2)..(i + 5) : s[k] \in HexDigits
             THEN ParseStringBody(s, i + 6)
        ELSE 0
    ELSE ParseStringBody(s, i + 1)

ParseString(s, i) ==
    IF i <= Len(s) /\ s[i] = "\"" THEN ParseStringBody(s, i + 1) ELSE 0

\* integer literals: -?(0|[1-9][0-9]*); the documents hold no fraction or
\* exponent characters
ParseNumber(s, i) ==
    LET j == IF i <= Len(s) /\ s[i] = "-" THEN i + 1 ELSE i
        n == LeadingRun(SubSeq(s, j, Len(s)), Digits)
    IN  IF n = 0 THEN 0
        ELSE IF s[j] = "0" /\ n > 1 THEN 0
        ELSE IF j + n <= Len(s) /\ s[j + n] \in {".", "e", "E"} THEN 0
        ELSE j + n

RECURSIVE ParseValue(_, _), ParseMembers(_, _), ParseElements(_, _)
\* i is the position of a member's key; returns the position after the "}"
ParseMembers(s, i) ==
    LET k == ParseString(s, i) IN
    IF k = 0 THEN 0
    ELSE LET c == SkipWs(s, k) IN
         IF c > Len(s) \/ s[c] # ":" THEN 0
         ELSE LET v == ParseValue(s, SkipWs(s, c + 1)) IN
              IF v = 0 THEN 0
              ELSE LET e == SkipWs(s, v) IN
                   IF e > Len(s) THEN 0
                   ELSE IF s[e] = "}" THEN e + 1
                   ELSE IF s[e] = "," THEN ParseMembers(s, SkipWs(s, e + 1))
                   ELSE 0

\* i is the position of an element; returns the position after the "]"
ParseElements(s, i) ==
    LET v == ParseValue(s, i) IN
    IF v = 0 THEN 0
    ELSE LET e == SkipWs(s, v) IN
         IF e > Len(s) THEN 0
         ELSE IF s[e] = "]" THEN e + 1
         ELSE IF s[e] = "," THEN ParseElements(s, SkipWs(s, e + 1))
         ELSE 0

ParseValue(s, i) ==
    IF i > Len(s) THEN 0
    ELSE IF s[i] = "{" THEN
        LET j == SkipWs(s, i + 1) IN
        IF j <= Len(s) /\ s[j] = "}" THEN j + 1 ELSE ParseMembers(s, j)
    ELSE IF s[i] = "[" THEN
        LET j == SkipWs(s, i + 1) IN
        IF j <= Len(s) /\ s[j] = "]" THEN j + 1 ELSE ParseElements(s, j)
    ELSE IF s[i] = "\"" THEN ParseString(s, i)
    ELSE IF s[i] = "t" THEN MatchWord(s, i, <<"t", "r", "u", "e">>)
    ELSE IF s[i] = "f" THEN MatchWord(s, i, <<"f", "a", "l", "s", "e">>)
    ELSE IF s[i] = "n" THEN MatchWord(s, i, <<"n", "u", "l", "l">>)
    ELSE ParseNumber(s, i)

\* whether JSON.parse(s) returns (TRUE) or throws a SyntaxError (FALSE)
JSONParses(s) ==
    LET v == ParseValue(s, SkipWs(s, 1)) IN
    v # 0 /\ SkipWs(s, v) = Len(s) + 1

\* The value JSON.parse(s) returns, for a text it accepts: the text without
\* its insignificant white space (the white space outside string literals),
\* so that two texts that differ only in layout parse to the same value.
RECURSIVE DropLayout(_, _, _)
DropLayout(s, inStr, esc) ==
    IF s = <<>> THEN <<>>
    ELSE LET c == Head(s) IN
         IF esc THEN <<c>> \o DropLayout(Tail(s), inStr, FALSE)
         ELSE IF inStr /\ c = "\\" THEN <<c>> \o DropLayout(Tail(s), inStr, TRUE)
         ELSE IF c = "\"" THEN <<c>> \o DropLayout(Tail(s), ~inStr, FALSE)
         ELSE IF ~inStr /\ c \in WhiteSpace THEN DropLayout(Tail(s), inStr, FALSE)
         ELSE <<c>> \o DropLayout(Tail(s), inStr, FALSE)

JSONParse(s) == DropLayout(s, FALSE, FALSE)

\* ---------------------------------------------------------------- parseSSE
\* String.prototype.trim
RECURSIVE TrailingRun(_, _)
TrailingRun(s, cs) ==
    IF s = <<>> \/ s[Len(s)] \notin cs THEN 0
    ELSE 1 + TrailingRun(SubSeq(s, 1, Len(s) - 1), cs)

Trim(s) == SubSeq(s, LeadingRun(s, WhiteSpace) + 1, Len(s) - TrailingRun(s, WhiteSpace))

\* data.split(/\r\n|\r|\n/): cur is the line being gathered
RECURSIVE SplitLines(_, _)
SplitLines(s, cur) ==
    IF s = <<>> THEN <<cur>>
    ELSE IF Len(s) >= 2 /\ s[1] = "\r" /\ s[2] = "\n"
         THEN <<cur>> \o SplitLines(SubSeq(s, 3, Len(s)), <<>>)
    ELSE IF s[1] \in {"\r", "\n"} THEN <<cur>> \o SplitLines(Tail(s), <<>>)
    ELSE SplitLines(Tail(s), Append(cur, s[1]))

\* line.indexOf(':'), 0-based, -1 when there is none
RECURSIVE IndexOfColon(_, _)
IndexOfColon(line, from) ==
    IF from >= Len(line) THEN -1
    ELSE IF line[from + 1] = ":" THEN from
    ELSE IndexOfColon(line, from + 1)

\* whether the loop body goes on to the assignment for this line (it is not
\* blank and is no comment)
Contributes(line) == Trim(line) # <<>> /\ IndexOfColon(line, 0) # 0

\* field and value as the loop body sets them for a line
LineField(line) ==
    LET colonIndex == IndexOfColon(line, 0) IN
    IF colonIndex = -1 THEN line ELSE SubSeq(line, 1, colonIndex)

LineValue(line) ==
    LET colonIndex == IndexOfColon(line, 0) IN
    IF colonIndex = -1 THEN <<>> ELSE Trim(SubSeq(line, colonIndex + 2, Len(line)))

\* event[field]: the value of the entry for field in entries, or undefined
NoEntry == [defined |-> FALSE, value |-> <<>>]
RECURSIVE EntryOf(_, _)
EntryOf(entries, field) ==
    IF entries = <<>> THEN NoEntry
    ELSE IF Head(entries).field = field THEN [defined |-> TRUE, value |-> Head(entries).value]
    ELSE EntryOf(Tail(entries), field)

\* entries after event[field] = value (a new key goes last)
RECURSIVE SetEntry(_, _, _)
SetEntry(entries, field, value) ==
    IF entries = <<>> THEN <<[field |-> field, value |-> value]>>
    ELSE IF Head(entries).field = field
         THEN <<[field |-> field, value |-> value]>> \o Tail(entries)
    ELSE <<Head(entries)>> \o SetEntry(Tail(entries), field, value)

\* if (event[field]) event[field] += '\n' + value; else event[field] = value
\* (an entry that is the empty string is falsy)
AddField(entries, field, value) ==
    LET old == EntryOf(entries, field) IN
    IF old.defined /\ old.value # <<>>
    THEN SetEntry(entries, field, old.value \o <<"\n">> \o value)
    ELSE SetEntry(entries, field, value)

\* what parseSSE returns
Undefined == [defined |-> FALSE, entries |-> <<>>]
EventRecord(entries) == [defined |-> TRUE, entries |-> entries]

\* no call of parseSSE is under way
SSEIdle ==
    /\ sseData = <<>>
    /\ ssePc = "idle"
    /\ sseLines = <<>>
    /\ sseEvent = <<>>
    /\ sseResult = Undefined

\* the lines blocks are made of
SSELines ==
    { <<"e", "v", "e", "n", "t", ":", " ", "a">>,   \* 'event: a'
      <<"d", "a", "t", "a", ":", " ", "x">>,   \* 'data: x'
      <<"d", "a", "t", "a", ":">>,   \* 'data:'
      <<"d", "a", "t", "a", ":", " ", " ", "x", " ">>,   \* 'data:  x '
      <<"d", "a", "t", "a", ":", "y">>,   \* 'data:y'
      <<"i", "d">>,   \* 'id'
      <<":", " ", "c">>,   \* ': c'
      <<" ">> }   \* ' '

\* line terminators
EOLs == {<<"\n">>, <<"\r", "\n">>}

RECURSIVE Terminated(_, _)
Terminated(ls, eol) ==
    IF ls = <<>> THEN <<>> ELSE Head(ls) \o eol \o Terminated(Tail(ls), eol)

\* a block: its lines, each terminated, and the blank line that ends it
Block(ls, eol) == Terminated(ls, eol) \o eol

\* event names and single-line JSON texts
EventNames ==
    { <<"a">>,
      <<"c", "h", "a", "i", "n", " ", "s", "t", "a", "r", "t", "e", "d">>,
      <<"a", " ">>,
      <<>> }
JSONTexts == { <<"{", "\"", "a", "\"", ":", "1", "}">>, <<"\"", "x", "\"">> }

\* the block 'event: E\ndata: D\n\n'
EventDataBlock(E, D) ==
    <<"e", "v", "e", "n", "t", ":", " ">> \o E \o <<"\n">> \o <<"d", "a", "t", "a", ":", " ">> \o D \o <<"\n", "\n">>

SSEBlocks ==
    {<<>>}
    \cup {Block(ls, eol) : ls \in UNION {[1..n -> SSELines] : n \in 1..MaxLines},
                           eol \in EOLs}
    \cup {EventDataBlock(E, D) : E \in EventNames, D \in JSONTexts}

\* ------------------------------------------------- IncrementalJSONParser
\* The parser's fields as one record.
ParserState ==
    [buffer |-> buffer, depth |-> depth, inString |-> inString,
     escapeNext |-> escapeNext, arrayMode |-> arrayMode,
     objectStart |-> objectStart]

\* the field initialisers of the class
NewParser ==
    [buffer |-> <<>>, depth |-> 0, inString |-> FALSE, escapeNext |-> FALSE,
     arrayMode |-> FALSE, objectStart |-> -1]

\* What the try/catch around JSON.parse adds to results: the parsed value
\* (with the 0-based buffer index its text starts at, for reference), or
\* nothing when JSON.parse throws.
ParsedCandidate(json, at) ==
    IF JSONParses(json) THEN <<[value |-> JSONParse(json), at |-> at]>> ELSE <<>>

\* (variant: the handled span is blanked out instead of removed, so the
\* buffer keeps its length)
BufferAfterCandidatePadded(buf, i) ==
    [k \in 1..(i + 1) |-> "x"] \o Substring(buf, i + 1, Len(buf))

\* The buffer kept after a candidate span ending at index i was handled:
\* this.buffer.substring(i + 1).replace(/^[\s,]+/, '')
BufferAfterCandidate(buf, i) == StripSeparators(Substring(buf, i + 1, Len(buf)))

\* Where the scan of one feed call starts.
ScanStart == 0

\* objectStart moved to every opening brace, at whatever depth
ObjectStartAtEveryBrace(p, i) == i

\* objectStart after an opening brace read at index i
ObjectStartAt(p, i) == IF p.depth = 0 THEN i ELSE p.objectStart

\* What one feed call has done so far: turns of the for loop taken, times
\* the index was set back to the start of the buffer (i = -1), and whether
\* every such restart came with a strictly shorter buffer.
NoCost == [steps |-> 0, restarts |-> 0, shrunk |-> TRUE]

\* The for loop of feed, from index i (0-based) on. p is the parser, results
\* the objects found so far, dropped the number of characters this call has
\* removed from the front of the buffer, cost what the call has done so far.
RECURSIVE Scan(_, _, _, _, _)
Scan(p, i, results, dropped, cost) ==
    IF i >= Len(p.buffer)
    THEN [parser |-> p, results |-> results, steps |-> cost.steps,
          restarts |-> cost.restarts, shrunk |-> cost.shrunk]
    ELSE LET char == p.buffer[i + 1]
             turn == [cost EXCEPT !.steps = @ + 1]
         IN
         IF p.escapeNext THEN
            Scan([p EXCEPT !.escapeNext = FALSE], i + 1, results, dropped, turn)
         ELSE IF char = "\\" /\ p.inString THEN
            Scan([p EXCEPT !.escapeNext = TRUE], i + 1, results, dropped, turn)
         ELSE IF char = "\"" THEN
            Scan([p EXCEPT !.inString = ~p.inString], i + 1, results, dropped,
                 turn)
         ELSE IF p.inString THEN Scan(p, i + 1, results, dropped, turn)
         ELSE IF char = "{" THEN
            Scan([p EXCEPT !.objectStart = ObjectStartAt(p, i),
                           !.depth = p.depth + 1],
                 i + 1, results, dropped, turn)
         ELSE IF char = "}" THEN
            IF p.depth - 1 = 0 /\ p.objectStart # -1 THEN
               LET json == Substring(p.buffer, p.objectStart, i + 1)
                   at   == dropped + Min(p.objectStart, i + 1)
                   kept == BufferAfterCandidate(p.buffer, i)
               IN  Scan([p EXCEPT !.buffer = kept, !.depth = 0, !.objectStart = -1],
                        0,
                        results \o ParsedCandidate(json, at),
                        dropped + (Len(p.buffer) - Len(kept)),
                        [turn EXCEPT !.restarts = @ + 1,
                                     !.shrunk = @ /\ Len(kept) < Len(p.buffer)])
            ELSE Scan([p EXCEPT !.depth = p.depth - 1], i + 1, results, dropped,
                      turn)
         ELSE Scan(p, i + 1, results, dropped, turn)

\* feed(chunk): the parser after the call and the results it returns
Feed(p, chunk) ==
    LET appended == p.buffer \o chunk
        trimmed  == TrimStart(appended)
        enter    == ~p.arrayMode /\ trimmed # <<>> /\ Head(trimmed) = "["
        buf      == IF enter THEN Substring(trimmed, 1, Len(trimmed)) ELSE appended
        q        == [p EXCEPT !.buffer = buf,
                              !.arrayMode = IF enter THEN TRUE ELSE p.arrayMode]
    IN  Scan(q, ScanStart, <<>>, Len(appended) - Len(buf), NoCost)

\* the values of a list of results
RECURSIVE Values(_)
Values(rs) == IF rs = <<>> THEN <<>> ELSE <<Head(rs).value>> \o Values(Tail(rs))

\* --------------------------------------------------- the documents fed
\* '[{"a":1},{"b":2}]' (Scenario A of the specification)
DocScenarioA ==
    <<"[", "{", "\"", "a", "\"", ":", "1", "}", ",",
      "{", "\"", "b", "\"", ":", "2", "}", "]">>
\* ' [{"a":{"b":[1]}}, {}]'
DocNested ==
    <<" ", "[", "{", "\"", "a", "\"", ":", "{", "\"", "b", "\"", ":", "[", "1", "]",
      "}", "}", ",", " ", "{", "}", "]">>
\* '[{"a":"{}"}]'
DocBraceString ==
    <<"[", "{", "\"", "a", "\"", ":", "\"", "{", "}", "\"", "}", "]">>
\* '[{"a":"\"}"}]' (an escaped quote, then a brace, inside a string)
DocEscapedQuote ==
    <<"[", "{", "\"", "a", "\"", ":", "\"", "\\", "\"", "}", "\"", "}", "]">>
\* '{"a":1}' (a single top-level object)
DocSingleObject == <<"{", "\"", "a", "\"", ":", "1", "}">>
\* '"a{b}c"' (the example of property P1)
DocStringP1 == <<"\"", "a", "{", "b", "}", "c", "\"">>
\* '"a{}c"'
DocStringEmptyBraces == <<"\"", "a", "{", "}", "c", "\"">>
\* '{a},{"b":2}' (a balanced span that is not JSON, then an object)
DocNotJSON == <<"{", "a", "}", ",", "{", "\"", "b", "\"", ":", "2", "}">>
\* '}{"a":1}' (a stray closing brace first)
DocStrayClose == <<"}", "{", "\"", "a", "\"", ":", "1", "}">>

\* the valid JSON array-of-objects documents
ArrayDocs == {DocScenarioA, DocNested, DocBraceString, DocEscapedQuote}
\* the documents in which a brace pair lies inside a string
BraceInStringDocs == {DocBraceString, DocEscapedQuote, DocStringP1, DocStringEmptyBraces}
Docs == ArrayDocs \cup BraceInStringDocs
            \cup {DocSingleObject, DocNotJSON, DocStrayClose}

\* ------------------------------------------------------- errors (errors.ts)
None == "none"
InternalServerError == "internal_server_error"   \* ApiErrorCodes
HTTPException == "http_exception"                \* ApiErrorCodes
AIRunError == "ai_run_error"                     \* RunErrorCodes
NotFoundError == "NotFoundError"                 \* LatitudeErrorCodes

\* getErrorMessage: the message is prefixed for the two unexpected codes
GetErrorMessage(status, message, errorCode) ==
    IF errorCode = HTTPException \/ errorCode = InternalServerError
    THEN [prefix |-> <<"Unexpected API Error:", status>>, text |-> message]
    ELSE [prefix |-> <<>>, text |-> message]

\* new LatitudeApiError({status, message, errorCode})
LatitudeApiError(status, message, errorCode) ==
    [isApiError |-> TRUE, status |-> status, errorCode |-> errorCode,
     message |-> GetErrorMessage(status, message, errorCode)]

\* an exception that is no LatitudeApiError (new Error(message), a TypeError,
\* a SyntaxError, a network failure)
PlainError(message) ==
    [isApiError |-> FALSE, status |-> 0, errorCode |-> None,
     message |-> [prefix |-> <<>>, text |-> message]]

NoError == PlainError(None)

\* ------------------------------------------------- responses and promises
NoResponse == [uuid |-> None, conversation |-> None, response |-> None]

Pending == [state |-> "pending", defined |-> FALSE, value |-> NoResponse, error |-> NoError]
Resolved(v) == [state |-> "resolved", defined |-> TRUE, value |-> v, error |-> NoError]
ResolvedUndefined ==
    [state |-> "resolved", defined |-> FALSE, value |-> NoResponse, error |-> NoError]
Rejected(e) == [state |-> "rejected", defined |-> FALSE, value |-> NoResponse, error |-> e]

\* how handleStream's try block ended: not yet, by return, or by throw
Running == [kind |-> "running", value |-> NoResponse, error |-> NoError]
Returned(v) == [kind |-> "return", value |-> v, error |-> NoError]
Thrown(e) == [kind |-> "throw", value |-> NoResponse, error |-> e]

\* ------------------------------------- what reader.read() can hand back
Latitude == "latitude-event"     \* StreamEventTypes.Latitude
Provider == "provider-event"     \* StreamEventTypes.Provider

LatitudeFrame(dtype, id, messages, payload) ==
    [type |-> "event", event |-> Latitude, data |-> "object", dtype |-> dtype,
     uuid |-> id, messages |-> messages, response |-> payload]
ProviderFrame(dtype) ==
    [type |-> "event", event |-> Provider, data |-> "object", dtype |-> dtype,
     uuid |-> None, messages |-> None, response |-> None]
\* an event whose data is not JSON ("invalid") or is the JSON text null
BadDataFrame(data) ==
    [type |-> "event", event |-> Latitude, data |-> data, dtype |-> None,
     uuid |-> None, messages |-> None, response |-> None]
\* a value that is no event: a ReconnectInterval, or a falsy value
OtherValue(type) ==
    [type |-> type, event |-> None, data |-> None, dtype |-> None,
     uuid |-> None, messages |-> None, response |-> None]

Frames ==
    { LatitudeFrame("chain-started", "u1", "m1", None),
      LatitudeFrame("provider-completed", "u1", "m2", "r1"),
      LatitudeFrame("provider-completed", "u1", "m3", "r2"),
      LatitudeFrame("chain-completed", "u1", "m3", None),
      LatitudeFrame("chain-error", "u1", "m1", None),
      ProviderFrame("text-delta"),
      ProviderFrame("tool-call"),
      BadDataFrame("invalid"),
      BadDataFrame("null"),
      OtherValue("reconnect-interval"),
      OtherValue("empty") }

\* parseJSON(line): undefined when JSON.parse throws, else the parsed value
ParseJSONLine(f) ==
    IF f.data = "invalid" THEN "undefined"
    ELSE IF f.data = "null" THEN "null"
    ELSE "object"

\* !data
NotData(f) == ParseJSONLine(f) \in {"undefined", "null"}

\* ---------------------------------------------------------- handleStream
\* the error thrown for an event whose data does not parse
InvalidJSONError ==
    LatitudeApiError(402, "Invalid JSON in server event", InternalServerError)

\* (variant: the chain error gets the internal code)
ChainErrorAsInternal(f) == LatitudeApiError(402, "chain error message", InternalServerError)

\* the error thrown for a chain-error event
ChainErrorOf(f) == LatitudeApiError(402, "chain error message", AIRunError)

\* the error thrown at the end of a stream without uuid or response
StreamEndedError == PlainError("Stream ended without returning a provider response.")

\* the catch block: a LatitudeApiError is kept, anything else is wrapped
CaughtInStream(e) ==
    IF e.isApiError THEN e
    ELSE LatitudeApiError(402, e.message.text, InternalServerError)

\* (variant: the newest event is put first)
ForwardEventPrepended(log, f) == <<f>> \o log

\* onEvent?.({event, data})
ForwardEvent(log, f) == Append(log, f)

\* (variant: the first response captured is kept)
CaptureFirstResponse(old, f) == IF old = None THEN f.response ELSE old

\* chainResponse = data.response
CaptureResponse(old, f) == f.response

\* (variant: only the uuid is looked at)
MissingFinalUuidOnly(id, final) == id = None

\* (variant: a stream that ended without a chain-completed frame has no
\* final response either)
MissingFinalWithoutChainCompleted(id, final) ==
    \/ id = None
    \/ final = None
    \/ ~\E k \in 1..Len(frames) :
            /\ frames[k].type = "event"
            /\ frames[k].data = "object"
            /\ frames[k].event = Latitude
            /\ frames[k].dtype = "chain-completed"

\* if (!uuid || !chainResponse)
MissingFinal(id, final) == id = None \/ final = None

\* (variant: onToolCall(data) is not awaited)
ToolCallNotAwaited == "read"

\* where handleStream stands after it called onToolCall(data): it awaits it
AfterToolCallDispatch == "tool"

\* (variant: a failure of releaseLock replaces the result)
ReleaseFailureEscalates(result, releaseFails) ==
    IF releaseFails THEN Thrown(PlainError("release failed")) ELSE result

\* the result of the call once the finally block has run releaseLock():
\* a failure of releaseLock is caught and logged
AfterReleaseLock(result, releaseFails) == result

\* the catch block of handleStream, entered with exception e
\* a catch that reports the error and goes on reading
HsCatchContinues(e) ==
    LET error == CaughtInStream(e) IN
    /\ onErrorLog' = IF hasOnError THEN Append(onErrorLog, error) ELSE onErrorLog
    /\ hsResult' = hsResult
    /\ pc' = "read"

HsCatch(e) ==
    LET error == CaughtInStream(e) IN
    /\ onErrorLog' = IF hasOnError THEN Append(onErrorLog, error) ELSE onErrorLog
    /\ hsResult' = Thrown(error)
    /\ pc' = "finally"

\* a conversation that a chain-completed frame does not replace
ConversationKeptOnCompletion(old, f) ==
    IF f.dtype = "chain-completed" THEN old ELSE f.messages

\* conversation = data.messages
ReplaceConversation(old, f) == f.messages

\* One turn of the while loop in which reader.read() hands back a value:
\* everything up to the next await.
ReadValue ==
    \E f \in Frames :
        /\ pc = "read"
        /\ Len(frames) < MaxFrames
        /\ frames' = Append(frames, f)
        /\ IF f.type # "event" THEN
              UNCHANGED <<pc, uuid, conversation, chainResponse, onEventLog,
                          onErrorLog, toolCalls, toolsInFlight, hsResult>>
           ELSE IF NotData(f) THEN
              /\ HsCatch(InvalidJSONError)
              /\ UNCHANGED <<uuid, conversation, chainResponse, onEventLog,
                             toolCalls, toolsInFlight>>
           ELSE
              /\ onEventLog' = IF hasOnEvent THEN ForwardEvent(onEventLog, f)
                               ELSE onEventLog
              /\ IF f.event = Latitude THEN
                    /\ uuid' = f.uuid
                    /\ conversation' = ReplaceConversation(conversation, f)
                    /\ UNCHANGED <<toolCalls, toolsInFlight>>
                    /\ IF f.dtype = "chain-error" THEN
                          /\ HsCatch(ChainErrorOf(f))
                          /\ UNCHANGED chainResponse
                       ELSE
                          /\ chainResponse' =
                                IF f.dtype = "provider-completed"
                                THEN CaptureResponse(chainResponse, f)
                                ELSE chainResponse
                          /\ UNCHANGED <<pc, onErrorLog, hsResult>>
                 ELSE IF f.event = Provider /\ f.dtype = "tool-call" THEN
                    /\ toolCalls' = toolCalls + 1
                    /\ toolsInFlight' = toolsInFlight + 1
                    /\ pc' = AfterToolCallDispatch
                    /\ UNCHANGED <<uuid, conversation, chainResponse, onErrorLog,
                                   hsResult>>
                 ELSE
                    UNCHANGED <<pc, uuid, conversation, chainResponse, onErrorLog,
                                toolCalls, toolsInFlight, hsResult>>
        /\ UNCHANGED <<op, hasOnEvent, hasOnError, hasOnFinished, requests, attempts,
                   flaky, response,
                       readEnd, onFinishedLog, releaseCalls, warnings, outcome,
                       sessionVars, sseVars, renderVars>>

\* reader.read() reports done: the loop is left and the result is built
ReadDone ==
    /\ pc = "read"
    /\ readEnd' = "done"
    /\ IF MissingFinal(uuid, chainResponse) THEN HsCatch(StreamEndedError)
       ELSE /\ hsResult' = Returned([uuid |-> uuid, conversation |-> conversation,
                                     response |-> chainResponse])
            /\ pc' = "finally"
            /\ UNCHANGED onErrorLog
    /\ UNCHANGED <<op, hasOnEvent, hasOnError, hasOnFinished, requests, attempts,
                   flaky, response, frames,
                   uuid, conversation, chainResponse, onEventLog, onFinishedLog,
                   toolCalls, toolsInFlight, releaseCalls, warnings, outcome,
                   sessionVars, sseVars, renderVars>>

\* reader.read() rejects (the body stream or the decoder fails)
ReadFails ==
    /\ pc = "read"
    /\ readEnd' = "error"
    /\ HsCatch(PlainError("read failed"))
    /\ UNCHANGED <<op, hasOnEvent, hasOnError, hasOnFinished, requests, attempts,
                   flaky, response, frames,
                   uuid, conversation, chainResponse, onEventLog, onFinishedLog,
                   toolCalls, toolsInFlight, releaseCalls, warnings, outcome,
                   sessionVars, sseVars, renderVars>>

\* the promise of onToolCall(data) resolves
ToolCallResolves ==
    /\ toolsInFlight > 0
    /\ pc \in {"tool", "read"}
    /\ toolsInFlight' = toolsInFlight - 1
    /\ pc' = IF pc = "tool" THEN "read" ELSE pc
    /\ UNCHANGED <<op, hasOnEvent, hasOnError, hasOnFinished, requests, attempts,
                   flaky, response, frames,
                   readEnd, uuid, conversation, chainResponse, onEventLog,
                   onErrorLog, onFinishedLog, toolCalls, hsResult, releaseCalls,
                   warnings, outcome, sessionVars, sseVars, renderVars>>

\* what onToolCall(data) can reject with: any exception, or the
\* LatitudeApiError of a refused tool-result request
ToolCallErrors ==
    { PlainError("tool handler failed"),
      LatitudeApiError(404, "tool result refused", NotFoundError) }

\* the promise of onToolCall(data) rejects while handleStream awaits it
ToolCallRejects ==
    \E e \in ToolCallErrors :
        /\ toolsInFlight > 0
        /\ pc = "tool"
        /\ toolsInFlight' = toolsInFlight - 1
        /\ HsCatch(e)
        /\ UNCHANGED <<op, hasOnEvent, hasOnError, hasOnFinished, requests, attempts,
                   flaky, response,
                       frames, readEnd, uuid, conversation, chainResponse,
                       onEventLog, onFinishedLog, toolCalls, releaseCalls,
                       warnings, outcome, sessionVars, sseVars, renderVars>>

\* the finally block: reader.releaseLock(), which may itself throw
ReleaseLock ==
    \E releaseFails \in BOOLEAN :
        /\ pc = "finally"
        /\ releaseCalls' = releaseCalls + 1
        /\ warnings' = IF releaseFails THEN warnings + 1 ELSE warnings
        /\ hsResult' = AfterReleaseLock(hsResult, releaseFails)
        /\ pc' = "settle"
        /\ UNCHANGED <<op, hasOnEvent, hasOnError, hasOnFinished, requests, attempts,
                   flaky, response,
                       frames, readEnd, uuid, conversation, chainResponse,
                       onEventLog, onErrorLog, onFinishedLog, toolCalls,
                       toolsInFlight, outcome, sessionVars, sseVars, renderVars>>

\* an onFinished that is never called
FinishedNeverNotified(log, value, onFinished) == log

\* onFinished?.(finalResponse)
NotifyFinished(log, value, onFinished) ==
    IF onFinished THEN Append(log, value) ELSE log

\* ------------------------------------------------------------ streamAttach
\* (variant: the promise rejects whether or not onError was given)
HandleErrorAlwaysRejects(error, onError) == Rejected(error)

\* handleError(error, onError): the promise it returns
HandleError(error, onError) ==
    IF ~onError THEN Rejected(error) ELSE ResolvedUndefined

\* the catch block of streamAttach, syncChat and syncAttach for an exception
\* that is no LatitudeApiError
Wrapped500(e) == LatitudeApiError(500, e.message.text, InternalServerError)

\* what makeRequest can answer: it throws, or hands back a Response; the
\* body of an ok Response is the event stream for a streaming request, and
\* JSON text (which may fail to parse) for a synchronous one
NoAnswer == [threw |-> FALSE, ok |-> FALSE, status |-> 0, body |-> None]
ErrorBodies == {"error-json-not-found", "error-json-internal", "null", "unparsable"}
Responses ==
    {[threw |-> TRUE, ok |-> FALSE, status |-> 0, body |-> None]}
    \cup {[threw |-> FALSE, ok |-> TRUE, status |-> 200, body |-> b] :
            b \in {"response-json", "unparsable", "stream"}}
    \cup {[threw |-> FALSE, ok |-> FALSE, status |-> s, body |-> b] :
            s \in {404, 502}, b \in ErrorBodies}

\* the statuses makeRequest tries again on
ServerErrorStatuses == {502}
Is5xx(resp) == ~resp.threw /\ resp.status \in ServerErrorStatuses

\* the most HTTP requests makeRequest makes for one call
MaxAttempts == 3

\* what an HTTP request ended with
AnswerOf(resp) == IF resp.threw THEN "threw" ELSE resp.status

\* a makeRequest that hands back the first answer, whatever it is
MakeRequestWithoutRetry(resp, mayRecover) == {<<AnswerOf(resp)>>}

\* makeRequest: the answers to the HTTP requests it made before it handed
\* back resp. An answer with a 5xx status is tried again, until MaxAttempts
\* requests have been made; any other answer is handed back at once.
MakeRequestAttempts(resp, mayRecover) ==
    IF Is5xx(resp) THEN {[k \in 1..MaxAttempts |-> resp.status]}
    ELSE {[k \in 1..n |-> st] \o <<AnswerOf(resp)>> :
            n \in (IF mayRecover THEN 0..(MaxAttempts - 1) ELSE {0}),
            st \in ServerErrorStatuses}

\* json.errorCode of an error body
BodyErrorCode(body) ==
    IF body = "error-json-not-found" THEN NotFoundError ELSE InternalServerError

\* the GenerationResponse a synchronous endpoint answers with
SyncResponse == [uuid |-> "u1", conversation |-> "m1", response |-> "r1"]

\* the error built for a response that is not ok, where the body is read
\* with optional chaining (streamAttach, syncAttach)
NotOkErrorLenient(resp) ==
    IF resp.body = "unparsable" THEN Wrapped500(PlainError("json syntax error"))
    ELSE IF resp.body = "null"
    THEN LatitudeApiError(resp.status, "status text", InternalServerError)
    ELSE LatitudeApiError(resp.status, "server message", BodyErrorCode(resp.body))

\* an error for a response that is not ok that the catch block rewrites
NotOkErrorRewritten(resp) == Wrapped500(PlainError("server message"))

\* the same in syncChat, which reads json.message without optional chaining
NotOkErrorStrict(resp) ==
    IF resp.body = "unparsable" THEN Wrapped500(PlainError("json syntax error"))
    ELSE IF resp.body = "null" THEN Wrapped500(PlainError("type error"))
    ELSE LatitudeApiError(resp.status, "server message", BodyErrorCode(resp.body))

\* a delivery after which the operation starts over with a new request
DeliverThenRetry(error, result) ==
    /\ onErrorLog' = IF hasOnError THEN Append(onErrorLog, error) ELSE onErrorLog
    /\ outcome' = outcome
    /\ pc' = "request"

\* delivery of an error by an operation: onError?.(error), then the promise
Deliver(error, result) ==
    /\ onErrorLog' = IF hasOnError THEN Append(onErrorLog, error) ELSE onErrorLog
    /\ outcome' = result
    /\ pc' = "done"

\* streamAttach up to the call of handleStream
StreamAttachRequest ==
    \E resp \in Responses :
        /\ op = "streamAttach"
        /\ pc = "request"
        /\ resp.ok => resp.body = "stream"
        /\ requests' = requests + 1
        /\ attempts' \in MakeRequestAttempts(resp, flaky)
        /\ response' = resp
        /\ IF resp.threw THEN
              LET error == Wrapped500(PlainError("request failed")) IN
              Deliver(error, HandleError(error, hasOnError))
           ELSE IF ~resp.ok THEN
              LET error == NotOkErrorLenient(resp) IN
              Deliver(error, HandleError(error, hasOnError))
           ELSE /\ pc' = "read"
                /\ UNCHANGED <<onErrorLog, outcome>>
        /\ UNCHANGED <<op, hasOnEvent, hasOnError, hasOnFinished, flaky, frames, readEnd,
                       uuid, conversation, chainResponse, onEventLog,
                       onFinishedLog, toolCalls, toolsInFlight, hsResult,
                       releaseCalls, warnings, sessionVars, sseVars, renderVars>>

\* streamAttach after handleStream has settled
StreamAttachSettle ==
    /\ op = "streamAttach"
    /\ pc = "settle"
    /\ IF hsResult.kind = "return" THEN
          IF hsResult.value = NoResponse THEN
             /\ outcome' = ResolvedUndefined
             /\ pc' = "done"
             /\ UNCHANGED <<onErrorLog, onFinishedLog>>
          ELSE
             /\ onFinishedLog' = NotifyFinished(onFinishedLog, hsResult.value,
                                                hasOnFinished)
             /\ outcome' = Resolved(hsResult.value)
             /\ pc' = "done"
             /\ UNCHANGED onErrorLog
       ELSE
          LET e == hsResult.error
              error == IF e.isApiError THEN e ELSE Wrapped500(e)
          IN  /\ Deliver(error, HandleError(error, hasOnError))
              /\ UNCHANGED onFinishedLog
    /\ UNCHANGED <<op, hasOnEvent, hasOnError, hasOnFinished, requests, attempts,
                   flaky, response, frames,
                   readEnd, uuid, conversation, chainResponse, onEventLog,
                   toolCalls, toolsInFlight, hsResult, releaseCalls, warnings,
                   sessionVars, sseVars, renderVars>>

\* ------------------------------------------------- syncChat and syncAttach
\* return !onError ? Promise.reject(error) : Promise.resolve(undefined)
RejectOrResolve(error, onError) ==
    IF ~onError THEN Rejected(error) ELSE ResolvedUndefined

\* the whole of a synchronous operation; notOkError is the error it builds
\* for a response that is not ok
SyncCall(resp, notOkError) ==
    /\ pc = "request"
    /\ resp.ok => resp.body # "stream"
    /\ requests' = requests + 1
    /\ attempts' \in MakeRequestAttempts(resp, flaky)
    /\ response' = resp
    /\ IF resp.threw THEN
          LET error == Wrapped500(PlainError("request failed")) IN
          /\ Deliver(error, RejectOrResolve(error, hasOnError))
          /\ UNCHANGED onFinishedLog
       ELSE IF ~resp.ok THEN
          /\ Deliver(notOkError, RejectOrResolve(notOkError, hasOnError))
          /\ UNCHANGED onFinishedLog
       ELSE IF resp.body = "unparsable" THEN
          LET error == Wrapped500(PlainError("json syntax error")) IN
          /\ Deliver(error, RejectOrResolve(error, hasOnError))
          /\ UNCHANGED onFinishedLog
       ELSE
          /\ onFinishedLog' = NotifyFinished(onFinishedLog, SyncResponse, hasOnFinished)
          /\ outcome' = Resolved(SyncResponse)
          /\ pc' = "done"
          /\ UNCHANGED onErrorLog
    /\ UNCHANGED <<op, hasOnEvent, hasOnError, hasOnFinished, flaky, frames, readEnd,
                   uuid, conversation, chainResponse, onEventLog, toolCalls,
                   toolsInFlight, hsResult, releaseCalls, warnings, sessionVars, sseVars, renderVars>>

SyncChat ==
    \E resp \in Responses : op = "syncChat" /\ SyncCall(resp, NotOkErrorStrict(resp))

SyncAttach ==
    \E resp \in Responses : op = "syncAttach" /\ SyncCall(resp, NotOkErrorLenient(resp))

\* ------------------------------------ renderStep and handleToolRequests
\* the tool names a completion may ask for: one with a handler in tools,
\* one that is no key of tools, one that is a key of tools whose value is
\* undefined
Registered == "registered"
Unregistered == "unregistered"
UndefinedHandler == "undefinedHandler"
ToolNames == {Registered, Unregistered, UndefinedHandler}

\* t.toolName in (tools || {})
InTools(name) == name \in {Registered, UndefinedHandler}

\* tools?.[t.toolName]
HasHandler(name) == name = Registered

\* toolRequests.filter((t) => t.toolName in (tools || {}))
RECURSIVE FilterInTools(_)
FilterInTools(reqs) ==
    IF reqs = <<>> THEN <<>>
    ELSE (IF InTools(Head(reqs)) THEN <<Head(reqs)>> ELSE <<>>)
         \o FilterInTools(Tail(reqs))

\* how a call of a tool handler can end
HandlerValues == {"v1", "v2"}
HandlerErrors == {"e1", "e2"}
HandlerOutcomes ==
    {[threw |-> FALSE, value |-> v, message |-> None] : v \in HandlerValues}
    \cup {[threw |-> TRUE, value |-> None, message |-> e] : e \in HandlerErrors}

\* a renderTool that lets the handler's exception through
RenderToolPropagates(ended) ==
    IF ended.threw
    THEN [kind |-> "throw", result |-> ended.message, isError |-> TRUE]
    ELSE [kind |-> "return", result |-> ended.value, isError |-> FALSE]

\* renderTool: what it does with the outcome of the handler
RenderTool(ended) ==
    IF ended.threw
    THEN [kind |-> "return", result |-> ended.message, isError |-> TRUE]
    ELSE [kind |-> "return", result |-> ended.value, isError |-> FALSE]

\* the promise of one mapped request: pending, fulfilled with a tool
\* message, or rejected
PendingRun(name) ==
    [toolName |-> name, state |-> "pending", result |-> None, isError |-> FALSE,
     error |-> None]
RejectedRun(name, message) ==
    [toolName |-> name, state |-> "rejected", result |-> None, isError |-> FALSE,
     error |-> message]
ToolMessage(name, result, isError) ==
    [toolName |-> name, state |-> "fulfilled", result |-> result,
     isError |-> isError, error |-> None]

\* the async callback of map up to its first await
StartRun(name) ==
    IF ~HasHandler(name) THEN RejectedRun(name, "Handler for tool not found")
    ELSE PendingRun(name)

RECURSIVE StartRuns(_)
StartRuns(reqs) ==
    IF reqs = <<>> THEN <<>> ELSE <<StartRun(Head(reqs))>> \o StartRuns(Tail(reqs))

\* no call of renderStep is under way
RenderIdle ==
    /\ toolRequests = <<>>
    /\ toolRuns = <<>>
    /\ stepPc = "idle"
    /\ stepResult = [kind |-> "running", messages |-> <<>>, error |-> None]

\* ------------------------------------------------------ the calls' machine
Ops == {"streamAttach", "syncChat", "syncAttach"}

CallIdle ==
    /\ pc = "request"
    /\ requests = 0
    /\ attempts = <<>>
    /\ response = NoAnswer
    /\ frames = <<>>
    /\ readEnd = None
    /\ uuid = None
    /\ conversation = <<>>
    /\ chainResponse = None
    /\ onEventLog = <<>>
    /\ onErrorLog = <<>>
    /\ onFinishedLog = <<>>
    /\ toolCalls = 0
    /\ toolsInFlight = 0
    /\ hsResult = Running
    /\ releaseCalls = 0
    /\ warnings = 0
    /\ outcome = Pending

CallInit ==
    /\ op \in Ops
    /\ hasOnEvent \in BOOLEAN
    /\ hasOnError \in BOOLEAN
    /\ hasOnFinished \in BOOLEAN
    /\ flaky = FALSE
    /\ CallIdle
    /\ SSEIdle
    /\ RenderIdle
    /\ buffer = NewParser.buffer
    /\ depth = NewParser.depth
    /\ inString = NewParser.inString
    /\ escapeNext = NewParser.escapeNext
    /\ arrayMode = NewParser.arrayMode
    /\ objectStart = NewParser.objectStart
    /\ doc = <<>>
    /\ rest = <<>>
    /\ lastResults = <<>>
    /\ emitted = <<>>
    /\ feeds = 0
    /\ resets = 0
    /\ resetDirty = FALSE
    /\ emptyFeeds = 0
    /\ fresh = [parser |-> NewParser, results |-> <<>>]

CallNext ==
    \/ StreamAttachRequest
    \/ ReadValue
    \/ ReadDone
    \/ ReadFails
    \/ ToolCallResolves
    \/ ToolCallRejects
    \/ ReleaseLock
    \/ StreamAttachSettle
    \/ SyncChat
    \/ SyncAttach

SpecCall == CallInit /\ [][CallNext]_vars

\* the requests of the operations alone, with a server that may answer 5xx
\* to some HTTP requests and otherwise to a later one
RetryInit ==
    /\ op \in Ops
    /\ hasOnEvent \in BOOLEAN
    /\ hasOnError \in BOOLEAN
    /\ hasOnFinished \in BOOLEAN
    /\ flaky \in BOOLEAN
    /\ CallIdle
    /\ SSEIdle
    /\ RenderIdle
    /\ buffer = NewParser.buffer
    /\ depth = NewParser.depth
    /\ inString = NewParser.inString
    /\ escapeNext = NewParser.escapeNext
    /\ arrayMode = NewParser.arrayMode
    /\ objectStart = NewParser.objectStart
    /\ doc = <<>>
    /\ rest = <<>>
    /\ lastResults = <<>>
    /\ emitted = <<>>
    /\ feeds = 0
    /\ resets = 0
    /\ resetDirty = FALSE
    /\ emptyFeeds = 0
    /\ fresh = [parser |-> NewParser, results |-> <<>>]

RetryNext == StreamAttachRequest \/ SyncChat \/ SyncAttach

SpecRetry == RetryInit /\ [][RetryNext]_vars


\* ------------------------------------------------ the parser's actions
\* the number of characters of doc handed to feed so far
Fed == Len(doc) - Len(rest)

\* results with their positions turned from indices of the text fed in this
\* session (0-based) into positions of doc (1-based)
RECURSIVE Located(_, _)
Located(rs, offset) ==
    IF rs = <<>> THEN <<>>
    ELSE <<[value |-> Head(rs).value, at |-> offset + Head(rs).at + 1]>>
         \o Located(Tail(rs), offset)

ParserInit ==
    /\ buffer = NewParser.buffer
    /\ depth = NewParser.depth
    /\ inString = NewParser.inString
    /\ escapeNext = NewParser.escapeNext
    /\ arrayMode = NewParser.arrayMode
    /\ objectStart = NewParser.objectStart
    /\ doc \in Docs
    /\ rest = doc
    /\ lastResults = <<>>
    /\ emitted = <<>>
    /\ feeds = 0
    /\ resets = 0
    /\ resetDirty = FALSE
    /\ emptyFeeds = 0
    /\ fresh = [parser |-> NewParser, results |-> <<>>]
    /\ op = None
    /\ hasOnEvent = FALSE
    /\ hasOnError = FALSE
    /\ hasOnFinished = FALSE
    /\ flaky = FALSE
    /\ CallIdle
    /\ SSEIdle
    /\ RenderIdle

\* parser.feed(chunk), chunk being the next n characters of the document
FeedChunk ==
    \E n \in 1..Len(rest) :
        LET chunk == SubSeq(rest, 1, n)
            r     == Feed(ParserState, chunk)
            found == Located(r.results, Fed - Len(buffer))
        IN  /\ buffer' = r.parser.buffer
            /\ depth' = r.parser.depth
            /\ inString' = r.parser.inString
            /\ escapeNext' = r.parser.escapeNext
            /\ arrayMode' = r.parser.arrayMode
            /\ objectStart' = r.parser.objectStart
            /\ rest' = SubSeq(rest, n + 1, Len(rest))
            /\ lastResults' = found
            /\ emitted' = emitted \o found
            /\ feeds' = feeds + 1
            /\ doc' = doc
            /\ fresh' = LET t == Feed(fresh.parser, chunk)
                        IN  [parser |-> t.parser,
                             results |-> fresh.results \o Values(t.results)]
            /\ UNCHANGED <<resets, resetDirty, emptyFeeds>>
            /\ UNCHANGED <<callVars, sseVars, renderVars>>

\* calls of feed('') made between the chunks of one document
MaxEmptyFeeds == 2

\* parser.feed(''): the call made for a chunk that carries no text
FeedEmpty ==
    /\ emptyFeeds < MaxEmptyFeeds
    /\ LET r     == Feed(ParserState, <<>>)
           found == Located(r.results, Fed - Len(buffer))
       IN  /\ buffer' = r.parser.buffer
           /\ depth' = r.parser.depth
           /\ inString' = r.parser.inString
           /\ escapeNext' = r.parser.escapeNext
           /\ arrayMode' = r.parser.arrayMode
           /\ objectStart' = r.parser.objectStart
           /\ lastResults' = found
           /\ emitted' = emitted \o found
           /\ feeds' = feeds + 1
           /\ fresh' = LET t == Feed(fresh.parser, <<>>)
                       IN  [parser |-> t.parser,
                            results |-> fresh.results \o Values(t.results)]
    /\ emptyFeeds' = emptyFeeds + 1
    /\ UNCHANGED <<doc, rest, resets, resetDirty>>
    /\ UNCHANGED <<callVars, sseVars, renderVars>>

\* a reset() that leaves depth as it is
ResetKeepsDepth(p) == [NewParser EXCEPT !.depth = p.depth]

\* the fields after reset() on a parser whose fields are p
ResetState(p) ==
    [buffer |-> <<>>, depth |-> 0, inString |-> FALSE, escapeNext |-> FALSE,
     arrayMode |-> FALSE, objectStart |-> -1]

\* parser.reset(), after which the caller starts on another document
Reset ==
    /\ resets < MaxResets
    /\ LET q == ResetState(ParserState)
       IN  /\ buffer' = q.buffer
           /\ depth' = q.depth
           /\ inString' = q.inString
           /\ escapeNext' = q.escapeNext
           /\ arrayMode' = q.arrayMode
           /\ objectStart' = q.objectStart
    /\ resets' = resets + 1
    /\ resetDirty' = (ParserState # NewParser)
    /\ emptyFeeds' = emptyFeeds
    /\ doc' \in Docs
    /\ rest' = doc'
    /\ lastResults' = <<>>
    /\ emitted' = <<>>
    /\ feeds' = 0
    /\ fresh' = [parser |-> NewParser, results |-> <<>>]
    /\ UNCHANGED <<callVars, sseVars, renderVars>>

ParserNext == FeedChunk \/ Reset

SpecParser == ParserInit /\ [][ParserNext]_vars

\* one document fed in chunks, with calls of feed('') in between
EmptyFeedNext == FeedChunk \/ FeedEmpty

SpecEmptyFeed == ParserInit /\ [][EmptyFeedNext]_vars

\* ------------------------------------------------- parseSSE, step by step
SSEInit ==
    /\ sseData \in SSEBlocks
    /\ ssePc = "start"
    /\ sseLines = <<>>
    /\ sseEvent = <<>>
    /\ sseResult = Undefined
    /\ buffer = NewParser.buffer
    /\ depth = NewParser.depth
    /\ inString = NewParser.inString
    /\ escapeNext = NewParser.escapeNext
    /\ arrayMode = NewParser.arrayMode
    /\ objectStart = NewParser.objectStart
    /\ doc = <<>>
    /\ rest = <<>>
    /\ lastResults = <<>>
    /\ emitted = <<>>
    /\ feeds = 0
    /\ resets = 0
    /\ resetDirty = FALSE
    /\ emptyFeeds = 0
    /\ fresh = [parser |-> NewParser, results |-> <<>>]
    /\ op = None
    /\ hasOnEvent = FALSE
    /\ hasOnError = FALSE
    /\ hasOnFinished = FALSE
    /\ flaky = FALSE
    /\ CallIdle
    /\ RenderIdle

\* if (!data) return undefined; const lines = data.split(...)
SSESplit ==
    /\ ssePc = "start"
    /\ IF sseData = <<>>
       THEN /\ ssePc' = "returned"
            /\ sseLines' = sseLines
       ELSE /\ ssePc' = "loop"
            /\ sseLines' = SplitLines(sseData, <<>>)
    /\ UNCHANGED <<sseData, sseEvent, sseResult, sessionVars, callVars, renderVars>>

\* one turn of the for loop
SSELine ==
    /\ ssePc = "loop"
    /\ sseLines # <<>>
    /\ LET line == Head(sseLines) IN
       sseEvent' = IF Contributes(line)
                   THEN AddField(sseEvent, LineField(line), LineValue(line))
                   ELSE sseEvent
    /\ sseLines' = Tail(sseLines)
    /\ UNCHANGED <<sseData, ssePc, sseResult, sessionVars, callVars, renderVars>>

\* return Object.keys(event).length > 0 ? event : undefined
SSEReturn ==
    /\ ssePc = "loop"
    /\ sseLines = <<>>
    /\ sseResult' = IF Len(sseEvent) > 0 THEN EventRecord(sseEvent) ELSE Undefined
    /\ ssePc' = "returned"
    /\ UNCHANGED <<sseData, sseLines, sseEvent, sessionVars, callVars, renderVars>>

SSENext == SSESplit \/ SSELine \/ SSEReturn

SpecSSE == SSEInit /\ [][SSENext]_vars

\* ------------------------------------------- renderStep, step by step
RenderInit ==
    /\ toolRequests \in UNION {[1..n -> ToolNames] : n \in 0..MaxToolRequests}
    /\ toolRuns = <<>>
    /\ stepPc = "completion"
    /\ stepResult = [kind |-> "running", messages |-> <<>>, error |-> None]
    /\ SSEIdle
    /\ buffer = NewParser.buffer
    /\ depth = NewParser.depth
    /\ inString = NewParser.inString
    /\ escapeNext = NewParser.escapeNext
    /\ arrayMode = NewParser.arrayMode
    /\ objectStart = NewParser.objectStart
    /\ doc = <<>>
    /\ rest = <<>>
    /\ lastResults = <<>>
    /\ emitted = <<>>
    /\ feeds = 0
    /\ resets = 0
    /\ resetDirty = FALSE
    /\ emptyFeeds = 0
    /\ fresh = [parser |-> NewParser, results |-> <<>>]
    /\ op = None
    /\ hasOnEvent = FALSE
    /\ hasOnError = FALSE
    /\ hasOnFinished = FALSE
    /\ flaky = FALSE
    /\ CallIdle

\* renderCompletion has returned; with tool requests, handleToolRequests
\* filters them and starts the callback of map for each one left
AfterCompletion ==
    /\ stepPc = "completion"
    /\ IF Len(toolRequests) > 0
       THEN /\ toolRuns' = StartRuns(FilterInTools(toolRequests))
            /\ stepPc' = "tools"
            /\ UNCHANGED stepResult
       ELSE /\ stepResult' = [kind |-> "return", messages |-> <<>>, error |-> None]
            /\ stepPc' = "done"
            /\ UNCHANGED toolRuns
    /\ UNCHANGED <<toolRequests, sessionVars, callVars, sseVars>>

\* the handler of a pending request settles, and renderTool with it
HandlerSettles ==
    \E k \in 1..Len(toolRuns), ended \in HandlerOutcomes :
        /\ stepPc = "tools"
        /\ toolRuns[k].state = "pending"
        /\ LET r == RenderTool(ended)
               name == toolRuns[k].toolName
           IN  toolRuns' = [toolRuns EXCEPT ![k] =
                              IF r.kind = "throw" THEN RejectedRun(name, r.result)
                              ELSE ToolMessage(name, r.result, r.isError)]
        /\ UNCHANGED <<toolRequests, stepPc, stepResult, sessionVars, callVars, sseVars>>

\* Promise.all rejects as soon as one promise is rejected: renderStep throws
StepThrows ==
    /\ stepPc = "tools"
    /\ \E k \in 1..Len(toolRuns) :
          /\ toolRuns[k].state = "rejected"
          /\ stepResult' = [kind |-> "throw", messages |-> <<>>,
                            error |-> toolRuns[k].error]
    /\ stepPc' = "done"
    /\ UNCHANGED <<toolRequests, toolRuns, sessionVars, callVars, sseVars>>

\* Promise.all is fulfilled: renderStep returns the messages
StepReturns ==
    /\ stepPc = "tools"
    /\ \A k \in 1..Len(toolRuns) : toolRuns[k].state = "fulfilled"
    /\ stepResult' = [kind |-> "return", messages |-> toolRuns, error |-> None]
    /\ stepPc' = "done"
    /\ UNCHANGED <<toolRequests, toolRuns, sessionVars, callVars, sseVars>>

RenderNext == AfterCompletion \/ HandlerSettles \/ StepThrows \/ StepReturns

SpecRender == RenderInit /\ [][RenderNext]_vars

\* what one feed of the whole document to a fresh parser returns
OneChunk(d) == Values(Feed(NewParser, d).results)

\* ------------------------------------------------- claims on the parser
\* whether position pos (1-based) of document d lies inside a string
\* literal, reading d from its start
RECURSIVE InsideString(_, _, _, _)
InsideString(d, pos, inStr, esc) ==
    IF pos <= 1 \/ d = <<>> THEN inStr
    ELSE LET c == Head(d) IN
         IF esc THEN InsideString(Tail(d), pos - 1, inStr, FALSE)
         ELSE IF inStr /\ c = "\\" THEN InsideString(Tail(d), pos - 1, inStr, TRUE)
         ELSE IF c = "\"" THEN InsideString(Tail(d), pos - 1, ~inStr, FALSE)
         ELSE InsideString(Tail(d), pos - 1, inStr, FALSE)

\* C1: chunk-split invariance. Once a valid JSON array-of-objects document
\* has been fed completely, in whatever chunks, the objects emitted by all
\* the feed calls together are the objects one feed of the whole document
\* emits.
C1_ChunkSplitInvariance ==
    (doc \in ArrayDocs /\ rest = <<>>) => Values(emitted) = OneChunk(doc)

\* C7: no false positives from braces inside strings. For a document with a
\* brace pair inside a string, no emitted object starts at a position of the
\* document that lies inside a string literal.
C7_NoObjectFromInsideString ==
    doc \in BraceInStringDocs =>
        \A k \in 1..Len(emitted) : ~InsideString(doc, emitted[k].at, FALSE, FALSE)

\* C11: in every state reached by feed and reset calls depth >= 0, and
\* every object emitted began at an opening brace of the document (the
\* character objectStart pointed at when depth returned to 0).
C11_DepthNonNegativeEmitAtBrace ==
    /\ depth >= 0
    /\ \A k \in 1..Len(emitted) : doc[emitted[k].at] = "{"

\* the chunk handed to feed in a step that is a feed call
StepChunk == SubSeq(rest, 1, Len(rest) - Len(rest'))

\* C12: a feed call that emits nothing (its candidate spans, if any, failed
\* to parse) and does not enter array mode leaves the buffer as it was with
\* the chunk appended: the buffer is shortened only after a successful parse.
C12_BufferKeptOnParseFailure ==
    [][(feeds' = feeds + 1 /\ lastResults' = <<>> /\ arrayMode' = arrayMode)
          => buffer' = buffer \o StepChunk]_vars

\* the values of the elements of a JSON array text, from the element that
\* starts at position i on, by the JSON grammar
RECURSIVE ArrayElements(_, _)
ArrayElements(s, i) ==
    LET v == ParseValue(s, i)
        e == SkipWs(s, v)
    IN  <<JSONParse(SubSeq(s, i, v - 1))>>
        \o (IF s[e] = "," THEN ArrayElements(s, SkipWs(s, e + 1)) ELSE <<>>)

\* the top-level objects of a valid document: the elements of an array, or
\* the document itself when it is a single object
TopLevelObjects(d) ==
    LET b == SkipWs(d, 1) IN
    IF d[b] = "[" THEN
        LET j == SkipWs(d, b + 1) IN
        IF d[j] = "]" THEN <<>> ELSE ArrayElements(d, j)
    ELSE <<JSONParse(d)>>

\* C14: array wrapper transparency in a single feed. One feed of a whole
\* valid document (an array of objects, or a single object) to a newly
\* constructed parser emits exactly its top-level objects, once each, in
\* document order.
C14_SingleFeedEmitsTopLevelObjects ==
    (resets = 0 /\ feeds = 1 /\ rest = <<>> /\ doc \in ArrayDocs \cup {DocSingleObject})
        => Values(emitted) = TopLevelObjects(doc)

\* one feed of the document with a nested object and a nested array has
\* emitted its two elements
C14_Witness ==
    /\ resets = 0 /\ feeds = 1 /\ rest = <<>> /\ doc = DocNested
    /\ Len(emitted) = 2
    /\ Values(emitted) = TopLevelObjects(doc)

\* C15: reset() restores the initial state. After a reset() the parser's
\* fields and the objects it has emitted are, at every moment, those of a
\* newly constructed parser fed the same chunks; and a reset() that follows
\* a reset() directly changes no field (reset is idempotent).
C15_ResetRestoresInitialState ==
    /\ [](resets > 0 => (ParserState = fresh.parser /\ Values(emitted) = fresh.results))
    /\ [][(resets' = resets + 1 /\ resets > 0 /\ feeds = 0)
             => <<buffer, depth, inString, escapeNext, arrayMode, objectStart>>' =
                <<buffer, depth, inString, escapeNext, arrayMode, objectStart>>]_vars

\* a reset() found the fields off their initial values, and the valid
\* document fed afterwards has been fed completely and gave objects
C15_Witness ==
    /\ resets > 0 /\ resetDirty
    /\ doc \in ArrayDocs /\ rest = <<>> /\ emitted # <<>>
    /\ ParserState = fresh.parser

\* -------------------------------------------------- claims on the calls
\* a frame that is an event whose data parses to an object
WellFormed(f) == f.type = "event" /\ ~NotData(f)

IsProviderCompleted(f) ==
    WellFormed(f) /\ f.event = Latitude /\ f.dtype = "provider-completed"

\* the last frame read
LastFrame == frames[Len(frames)]

\* handleStream has processed a chain-error frame (which ends the reading)
ChainErrorSeen ==
    /\ frames # <<>>
    /\ WellFormed(LastFrame)
    /\ LastFrame.event = Latitude
    /\ LastFrame.dtype = "chain-error"

\* the response of the last provider-completed frame of fs, None without one
RECURSIVE LastCompletedResponse(_)
LastCompletedResponse(fs) ==
    IF fs = <<>> THEN None
    ELSE IF IsProviderCompleted(fs[Len(fs)]) THEN fs[Len(fs)].response
    ELSE LastCompletedResponse(SubSeq(fs, 1, Len(fs) - 1))

ResolvedWithResponse == outcome.state = "resolved" /\ outcome.defined

\* C2: with onEvent supplied, the frames handed to onEvent are at every
\* moment exactly the well-formed frames read so far, each once, in the
\* order in which they were read.
C2_OnEventOncePerFrameInOrder ==
    (op = "streamAttach" /\ hasOnEvent) => onEventLog = SelectSeq(frames, WellFormed)

\* a run that resolved after three events, the second and third different
\* from the first, all of them handed to onEvent
C2_Witness ==
    /\ pc = "done"
    /\ hasOnEvent
    /\ ResolvedWithResponse
    /\ Len(onEventLog) = 3
    /\ onEventLog[1].dtype = "chain-started"
    /\ onEventLog[2].dtype = "text-delta"
    /\ onEventLog[3].dtype = "provider-completed"

\* C3: error bifurcation on a chain-error frame. Without onError the
\* promise rejects with status 402 and code ai_run_error; with onError it
\* resolves to undefined and the handler got an error with that status and
\* code.
C3_ChainErrorBifurcation ==
    (op = "streamAttach" /\ pc = "done" /\ ChainErrorSeen) =>
        IF ~hasOnError
        THEN /\ outcome.state = "rejected"
             /\ outcome.error.status = 402
             /\ outcome.error.errorCode = AIRunError
        ELSE /\ outcome = ResolvedUndefined
             /\ onErrorLog # <<>>
             /\ \A k \in 1..Len(onErrorLog) :
                    /\ onErrorLog[k].status = 402
                    /\ onErrorLog[k].errorCode = AIRunError

C3_Witness ==
    /\ op = "streamAttach" /\ pc = "done" /\ ChainErrorSeen
    /\ hasOnError
    /\ outcome = ResolvedUndefined
    /\ Len(frames) > 1

\* C4: when the stream reports done while no uuid or no provider-completed
\* response is held, the call does not resolve with a response; it ends in
\* an error with the internal error code: a rejection without onError, an
\* error handed to onError with it.
C4_EndWithoutFinalIsInternalError ==
    (op = "streamAttach" /\ pc = "done" /\ readEnd = "done"
        /\ (uuid = None \/ chainResponse = None)) =>
        /\ ~ResolvedWithResponse
        /\ ~hasOnError =>
              /\ outcome.state = "rejected"
              /\ outcome.error.errorCode = InternalServerError
        /\ hasOnError =>
              /\ onErrorLog # <<>>
              /\ \A k \in 1..Len(onErrorLog) :
                    onErrorLog[k].errorCode = InternalServerError

\* the stream ended right after chain-started (Scenario C)
C4_Witness ==
    /\ op = "streamAttach" /\ pc = "done" /\ readEnd = "done"
    /\ Len(frames) = 1
    /\ frames[1].dtype = "chain-started"
    /\ uuid = "u1"
    /\ chainResponse = None
    /\ outcome.state = "rejected"

\* C5: the response of a call that resolved is the response of the last
\* provider-completed frame read.
C5_LastProviderCompletedWins ==
    (op = "streamAttach" /\ pc = "done" /\ ResolvedWithResponse) =>
        outcome.value.response = LastCompletedResponse(frames)

\* a call that resolved after two provider-completed frames with different
\* responses
C5_Witness ==
    /\ op = "streamAttach" /\ pc = "done" /\ ResolvedWithResponse
    /\ \E i, j \in 1..Len(frames) :
          /\ i < j
          /\ IsProviderCompleted(frames[i])
          /\ IsProviderCompleted(frames[j])
          /\ frames[i].response # frames[j].response

\* C6: tool-call backpressure. While a tool call is in flight no value is
\* read from the stream, nothing is handed to onEvent, the stream is not
\* ended and no other tool call is started; at most one is in flight.
C6_ToolCallBackpressure ==
    /\ [](toolsInFlight <= 1)
    /\ [][toolsInFlight > 0 =>
            /\ frames' = frames
            /\ readEnd' = readEnd
            /\ onEventLog' = onEventLog
            /\ toolCalls' = toolCalls]_vars

\* a tool call is in flight, and frames were read before it
C6_Witness ==
    /\ toolsInFlight = 1
    /\ pc = "tool"
    /\ Len(frames) > 1
    /\ LastFrame.dtype = "tool-call"

\* the messages of the errors handleStream itself constructs for a parse or
\* protocol failure
ProtocolFailureTexts ==
    { "Invalid JSON in server event",
      "Stream ended without returning a provider response.",
      "read failed" }

\* C8: an error synthesized by handleStream carries status 402 with the
\* AI-run code for a chain-error payload, and status 500 with the internal
\* code for invalid frame JSON, a stream that ended without a final
\* response, or a failed read.
C8_SynthesizedErrorStatus ==
    hsResult.kind = "throw" =>
        /\ hsResult.error.message.text = "chain error message" =>
              /\ hsResult.error.status = 402
              /\ hsResult.error.errorCode = AIRunError
        /\ hsResult.error.message.text \in ProtocolFailureTexts =>
              /\ hsResult.error.status = 500
              /\ hsResult.error.errorCode = InternalServerError

\* an error occurred in the call: the request failed, the response was not
\* ok or did not parse, or handleStream threw
ErrorOccurred ==
    \/ response.threw
    \/ ~response.ok
    \/ response.body = "unparsable"
    \/ hsResult.kind = "throw"

\* C9: when streamAttach, syncChat or syncAttach has settled, its promise
\* resolved to undefined exactly when an error occurred and onError was
\* supplied; it rejected when an error occurred and onError was not
\* supplied; it resolved to the response when no error occurred.
C9_DualModeDelivery ==
    pc = "done" =>
        /\ (outcome.state = "resolved" /\ ~outcome.defined)
              <=> (ErrorOccurred /\ hasOnError)
        /\ (ErrorOccurred /\ ~hasOnError) => outcome.state = "rejected"
        /\ ~ErrorOccurred => ResolvedWithResponse

\* syncChat met a response that was not ok, with onError supplied
C9_Witness ==
    /\ pc = "done"
    /\ op = "syncChat"
    /\ hasOnError
    /\ ~response.threw /\ ~response.ok
    /\ outcome = ResolvedUndefined
    /\ Len(onErrorLog) = 1

\* C10: on every way out of handleStream releaseLock is called exactly
\* once, after the last value was read and the last event handed on, and
\* the result of handleStream (its return value or the error it throws) is
\* what it was before the call, whether or not releaseLock failed.
C10_ReleaseLockOnceOutcomeKept ==
    /\ [](op = "streamAttach" =>
            /\ pc \in {"request", "read", "tool", "finally"} => releaseCalls = 0
            /\ (pc \in {"settle", "done"} /\ hsResult.kind # "running")
                  => releaseCalls = 1)
    /\ [][pc = "finally" => hsResult' = hsResult]_vars
    /\ [][releaseCalls > 0 =>
            /\ frames' = frames
            /\ onEventLog' = onEventLog
            /\ releaseCalls' = releaseCalls]_vars

\* releaseLock failed (one warning) and the call still resolved with the
\* response
C10_Witness ==
    /\ op = "streamAttach" /\ pc = "done"
    /\ releaseCalls = 1
    /\ warnings = 1
    /\ ResolvedWithResponse

\* an event frame, whatever its data
IsEventFrame(f) == f.type = "event"

\* C13: every event frame handleStream received, chain-error frames and
\* frames whose data is not valid JSON included, has been handed to onEvent
\* (when supplied) by the end of the loop turn that read it, so before the
\* error raised for that frame is delivered.
C13_EveryFrameForwarded ==
    (op = "streamAttach" /\ hasOnEvent) => onEventLog = SelectSeq(frames, IsEventFrame)

\* a platform (latitude-event) frame whose data parsed
IsPlatformFrame(f) == WellFormed(f) /\ f.event = Latitude

\* the platform frames received so far
PlatformFrames == SelectSeq(frames, IsPlatformFrame)

\* C19: the conversation is replaced wholesale. At every moment uuid and
\* conversation are those of the most recent platform frame (their initial
\* values before the first one), the response a call resolves to carries
\* them, and a step that reads a provider-event frame leaves uuid,
\* conversation and the captured response as they were.
C19_ConversationReplacedWholesale ==
    /\ [](op = "streamAttach" =>
            /\ PlatformFrames = <<>> => (uuid = None /\ conversation = <<>>)
            /\ PlatformFrames # <<>> =>
                  /\ uuid = PlatformFrames[Len(PlatformFrames)].uuid
                  /\ conversation = PlatformFrames[Len(PlatformFrames)].messages
            /\ (pc = "done" /\ ResolvedWithResponse) =>
                  /\ outcome.value.uuid = PlatformFrames[Len(PlatformFrames)].uuid
                  /\ outcome.value.conversation =
                         PlatformFrames[Len(PlatformFrames)].messages)
    /\ [][(Len(frames') = Len(frames) + 1
            /\ WellFormed(frames'[Len(frames')])
            /\ frames'[Len(frames')].event = Provider)
              => UNCHANGED <<uuid, conversation, chainResponse>>]_vars

\* a call that resolved after platform frames with different snapshots, a
\* provider-event frame between them, the last platform frame a
\* chain-completed one
C19_Witness ==
    /\ op = "streamAttach" /\ pc = "done" /\ ResolvedWithResponse
    /\ Len(frames) = 3
    /\ IsProviderCompleted(frames[1])
    /\ frames[2].event = Provider
    /\ frames[3].dtype = "chain-completed"
    /\ frames[1].messages # frames[3].messages
    /\ outcome.value.conversation = frames[3].messages

\* C20: onFinished is called exactly once on success and never on failure.
\* Whenever the promise of a call is resolved with a response, onFinished
\* (when supplied) has been called once, with that response; while the
\* promise is pending, and when it rejected or resolved to undefined,
\* onFinished has not been called.
C20_OnFinishedOnceOnSuccess ==
    /\ Len(onFinishedLog) <= 1
    /\ ResolvedWithResponse =>
          onFinishedLog = IF hasOnFinished THEN <<outcome.value>> ELSE <<>>
    /\ ~ResolvedWithResponse => onFinishedLog = <<>>

\* a streamed call with onFinished that resolved with the response of its
\* provider-completed frame
C20_Witness ==
    /\ op = "streamAttach" /\ pc = "done" /\ hasOnFinished
    /\ ResolvedWithResponse
    /\ outcome.value.response = "r2"
    /\ onFinishedLog = <<outcome.value>>

\* ------------------------------------------------------ claims on parseSSE
\* the lines of the text given to parseSSE
DataLines == SplitLines(sseData, <<>>)

\* C16: parseSSE round trip. For every event name E and JSON text D of the
\* model, parsing the block 'event: E\ndata: D\n\n' returns a record whose
\* event entry is exactly E, whose data entry is exactly D, and which has no
\* other entry.
C16_EventDataRoundTrip ==
    \A E \in EventNames, D \in JSONTexts :
        (ssePc = "returned" /\ sseData = EventDataBlock(E, D)) =>
            /\ sseResult.defined
            /\ Len(sseResult.entries) = 2
            /\ EntryOf(sseResult.entries, <<"e", "v", "e", "n", "t">>) = [defined |-> TRUE, value |-> E]
            /\ EntryOf(sseResult.entries, <<"d", "a", "t", "a">>) = [defined |-> TRUE, value |-> D]

\* the values of the lines of ls that contribute to field, in order
RECURSIVE OccurrenceValues(_, _)
OccurrenceValues(ls, field) ==
    IF ls = <<>> THEN <<>>
    ELSE (IF Contributes(Head(ls)) /\ LineField(Head(ls)) = field
          THEN <<LineValue(Head(ls))>> ELSE <<>>)
         \o OccurrenceValues(Tail(ls), field)

\* values joined with a newline character
RECURSIVE JoinNewline(_)
JoinNewline(vs) ==
    IF vs = <<>> THEN <<>>
    ELSE IF Len(vs) = 1 THEN vs[1]
    ELSE vs[1] \o <<"\n">> \o JoinNewline(Tail(vs))

\* C17: the value returned for a field is the values of all the field's
\* occurrences in the block, empty ones included, in order, joined with a
\* newline character.
C17_RepeatedFieldsJoined ==
    ssePc = "returned" =>
        \A k \in 1..Len(sseResult.entries) :
            sseResult.entries[k].value =
                JoinNewline(OccurrenceValues(DataLines, sseResult.entries[k].field))

\* the value of a line by the stated rule: what follows the colon, without
\* one leading space; empty for a line with no colon
StatedValue(line) ==
    LET colonIndex == IndexOfColon(line, 0)
        after == SubSeq(line, colonIndex + 2, Len(line))
    IN  IF colonIndex = -1 THEN <<>>
        ELSE IF after # <<>> /\ after[1] = " " THEN Tail(after)
        ELSE after

\* the entries the stated per-line rules give for lines ls
RECURSIVE StatedEntries(_)
StatedEntries(ls) ==
    IF ls = <<>> THEN <<>>
    ELSE (IF Contributes(Head(ls))
          THEN <<[field |-> LineField(Head(ls)), value |-> StatedValue(Head(ls))]>>
          ELSE <<>>)
         \o StatedEntries(Tail(ls))

\* no field occurs on two lines of ls
FieldsDistinct(ls) ==
    \A i, j \in 1..Len(ls) :
        (i < j /\ Contributes(ls[i]) /\ Contributes(ls[j]))
            => LineField(ls[i]) # LineField(ls[j])

\* C18: per-line rules. For a block in which no field is repeated, the
\* record returned has, for each line that is not blank and no comment, the
\* field with the text after the colon less one leading space (empty for a
\* line with no colon), and the result is undefined exactly when no line
\* contributes a field.
C18_PerLineRules ==
    (ssePc = "returned" /\ FieldsDistinct(DataLines)) =>
        sseResult = IF sseData = <<>> \/ StatedEntries(DataLines) = <<>>
                    THEN Undefined
                    ELSE EventRecord(StatedEntries(DataLines))

\* ------------------------------------------- further claims on the calls
\* the bodies of error responses that are JSON error objects
JSONErrorBodies == {"error-json-not-found", "error-json-internal"}

\* the errors the call delivered: the rejection, and what onError was given
DeliveredErrors ==
    (IF outcome.state = "rejected" THEN {outcome.error} ELSE {})
    \cup {onErrorLog[k] : k \in 1..Len(onErrorLog)}

\* C21: for a response that is not ok and carries a JSON error body, the
\* error delivered (as the rejection, or to onError) has the status of the
\* response and the errorCode of the body; it is not rewritten to 500.
C21_HttpErrorKeepsStatusAndCode ==
    (pc = "done" /\ ~response.threw /\ ~response.ok
        /\ response.body \in JSONErrorBodies) =>
        /\ DeliveredErrors # {}
        /\ \A e \in DeliveredErrors :
              /\ e.isApiError
              /\ e.status = response.status
              /\ e.errorCode = BodyErrorCode(response.body)

\* syncChat without onError rejected with the 404 / NotFoundError of the
\* response
C21_Witness ==
    /\ pc = "done" /\ op = "syncChat" /\ ~hasOnError
    /\ response.status = 404 /\ response.body = "error-json-not-found"
    /\ outcome.state = "rejected"
    /\ outcome.error.status = 404
    /\ outcome.error.errorCode = NotFoundError

\* --------------------------------------------------- claims on renderStep
\* C22: when a tool request names a tool without a handler, renderStep
\* ends by throwing; it never returns as if the request had not been made.
C22_MissingHandlerFailsRun ==
    (stepPc = "done"
        /\ \E k \in 1..Len(toolRequests) : ~HasHandler(toolRequests[k]))
        => stepResult.kind = "throw"

\* C23: the outcome of a tool handler is captured as a value. When every
\* requested tool has a handler, renderStep never throws, and the message
\* of each request says isError exactly when its result is the message of
\* the error the handler threw.
C23_HandlerOutcomeCaptured ==
    (\A k \in 1..Len(toolRequests) : HasHandler(toolRequests[k])) =>
        /\ stepResult.kind # "throw"
        /\ \A k \in 1..Len(toolRuns) :
              /\ toolRuns[k].state # "rejected"
              /\ toolRuns[k].state = "fulfilled" =>
                    \/ toolRuns[k].isError /\ toolRuns[k].result \in HandlerErrors
                    \/ ~toolRuns[k].isError /\ toolRuns[k].result \in HandlerValues
        /\ stepPc = "done" =>
              /\ Len(stepResult.messages) = Len(toolRequests)
              /\ \A k \in 1..Len(toolRequests) :
                    stepResult.messages[k].toolName = toolRequests[k]

\* renderStep returned after one handler threw and another resolved
C23_Witness ==
    /\ stepPc = "done" /\ stepResult.kind = "return"
    /\ Len(stepResult.messages) = 2
    /\ stepResult.messages[1].isError /\ stepResult.messages[1].result = "e1"
    /\ ~stepResult.messages[2].isError /\ stepResult.messages[2].result = "v1"

\* ----------------------------------------------------- claims on requests
\* C24: no retry once the body is with the stream consumer. makeRequest is
\* called at most once per call, no HTTP request is made after the request
\* step, and a call whose handleStream threw has ended without a response,
\* with one makeRequest call made.
C24_NoRetryInsideStream ==
    /\ [](requests <= 1)
    /\ [](hsResult.kind = "throw" /\ pc = "done" =>
             (requests = 1 /\ ~ResolvedWithResponse))
    /\ [][pc # "request" => UNCHANGED <<requests, attempts>>]_vars

\* a streamed call ended in failure after a chain-error frame, with one
\* HTTP request made
C24_Witness ==
    /\ op = "streamAttach" /\ pc = "done"
    /\ hsResult.kind = "throw" /\ ChainErrorSeen
    /\ requests = 1 /\ Len(attempts) = 1

\* C25: when every HTTP request of a call is answered 5xx, exactly
\* MaxAttempts (3) requests are made and the error delivered has that
\* status; an answer that is not 5xx is the last request made.
C25_ThreeAttemptsOn5xx ==
    requests = 1 =>
        /\ Len(attempts) \in 1..MaxAttempts
        /\ \A k \in 1..(Len(attempts) - 1) : attempts[k] \in ServerErrorStatuses
        /\ attempts[Len(attempts)] = AnswerOf(response)
        /\ Is5xx(response) =>
              /\ Len(attempts) = 3
              /\ pc = "done"
              /\ response.body \in JSONErrorBodies =>
                    /\ DeliveredErrors # {}
                    /\ \A e \in DeliveredErrors : e.status = response.status

\* syncChat with onError got the 502 error after three requests
C25_Witness ==
    /\ op = "syncChat" /\ pc = "done" /\ hasOnError
    /\ attempts = <<502, 502, 502>>
    /\ Len(onErrorLog) = 1 /\ onErrorLog[1].status = 502
    /\ outcome = ResolvedUndefined

\* a well-formed chain-error frame
IsChainError(f) ==
    WellFormed(f) /\ f.event = Latitude /\ f.dtype = "chain-error"

\* some frame read so far is a chain-error frame
ChainErrorRead == \E k \in 1..Len(frames) : IsChainError(frames[k])

\* C26: a chain-error frame is terminal. It is the last frame handleStream
\* reads, handleStream has thrown and awaits neither a read nor a tool
\* call, the call never resolves with a response, and from then on no frame
\* is read and neither onEvent nor onToolCall is called, whatever came
\* before it and whatever the stream still holds.
C26_ChainErrorIsTerminal ==
    /\ [](\A k \in 1..Len(frames) :
             IsChainError(frames[k]) =>
                /\ k = Len(frames)
                /\ hsResult.kind = "throw"
                /\ pc \notin {"read", "tool"}
                /\ ~ResolvedWithResponse)
    /\ [][ChainErrorRead => UNCHANGED <<frames, onEventLog, toolCalls>>]_vars

\* a chain-error frame came after a provider-completed frame, both went to
\* onEvent, and the call ended without a response
C26_Witness ==
    /\ op = "streamAttach" /\ pc = "done" /\ hasOnEvent
    /\ Len(frames) = 2
    /\ IsProviderCompleted(frames[1]) /\ IsChainError(frames[2])
    /\ chainResponse # None
    /\ Len(onEventLog) = 2
    /\ outcome.state = "rejected"

\* a call with onError supplied has ended in failure
FailedWithOnError == pc = "done" /\ hasOnError /\ ~ResolvedWithResponse

\* C27: for one failed call onError is invoked exactly once. A failure that
\* originates inside handleStream is reported by handleStream's catch and
\* again by the catch of streamAttach, so the statement does not hold.
C27_OnErrorExactlyOnce == FailedWithOnError => Len(onErrorLog) = 1

\* C28: feed('') is a no-op in every reachable parser state: it emits
\* nothing and leaves buffer, depth, inString, escapeNext, objectStart and
\* arrayMode as they were. The call scans the retained buffer once more from
\* its start with the fields the previous call left, so the statement does
\* not hold.
C28_EmptyFeedIsNoOp ==
    [][emptyFeeds' # emptyFeeds =>
          /\ UNCHANGED parserVars
          /\ lastResults' = <<>>]_vars

IsChainCompleted(f) ==
    WellFormed(f) /\ f.event = Latitude /\ f.dtype = "chain-completed"

\* the stream ended normally after at least one provider-completed frame,
\* with no chain-error frame and no event whose data failed to parse
EndedAfterProviderCompleted ==
    /\ op = "streamAttach" /\ pc = "done" /\ readEnd = "done"
    /\ \E k \in 1..Len(frames) : IsProviderCompleted(frames[k])
    /\ ~ChainErrorRead
    /\ \A k \in 1..Len(frames) : IsEventFrame(frames[k]) => WellFormed(frames[k])

\* C29: handleStream does not require a chain-completed frame. When the
\* stream ends after at least one provider-completed frame, with no
\* chain-error and no invalid frame, the call resolves with a response,
\* with or without a chain-completed frame, and the response is that of
\* the last provider-completed frame, also when that frame came after
\* chain-completed.
C29_ChainCompletedNotRequired ==
    EndedAfterProviderCompleted =>
        /\ ResolvedWithResponse
        /\ outcome.value.response = LastCompletedResponse(frames)

\* a provider-completed frame read after chain-completed replaced the
\* response held
C29_Witness ==
    /\ EndedAfterProviderCompleted
    /\ Len(frames) = 3
    /\ IsProviderCompleted(frames[1]) /\ frames[1].response = "r1"
    /\ IsChainCompleted(frames[2])
    /\ IsProviderCompleted(frames[3]) /\ frames[3].response = "r2"
    /\ ResolvedWithResponse
    /\ outcome.value.response = "r2"

\* C30: feed terminates. Within one call the scan index goes back to the
\* start of the buffer only after an extraction that left the buffer
\* strictly shorter, so the restarts of one call are at most the length of
\* the buffer it started on, and the turns of its loop at most that length
\* once per pass.
C30_FeedTerminates ==
    [][feeds' = feeds + 1 =>
          LET r     == Feed(ParserState, StepChunk)
              start == Len(buffer) + Len(StepChunk)
          IN  /\ r.shrunk
              /\ r.restarts <= start
              /\ r.steps <= start * (r.restarts + 1)]_vars

\* a feed call, not the first of its document, that emitted two objects
\* (so set the index back at least twice) and kept text in the buffer
C30_Witness ==
    /\ feeds > 1
    /\ Len(lastResults) >= 2
    /\ buffer # <<>>

====
